---- MODULE Spec2Model ----
(***************************************************************************)
(* State-machine model of the AI finance advisor API (src/api).            *)
(*                                                                         *)
(* The state is the three tables the handlers of main.py read and write    *)
(* (transactions, enriched_transactions, advice_insights), the module      *)
(* globals of ai.py (_redis, _client), the content and availability of the *)
(* Redis cache, and the answer of the last request.  Every HTTP handler is *)
(* one action; the answers of the external AI service are inputs of the    *)
(* action.                                                                 *)
(*                                                                         *)
(* Conventions.  Python str values are sequences of one-character strings; *)
(* None (for an Optional[str] column) is the sequence <<"None">>, which is *)
(* no string over the alphabet.  Money is an integer number of cents and   *)
(* float division truncates; confidence is an integer percentage.  A       *)
(* Python dict is a function whose DOMAIN is the set of keys present.      *)
(***************************************************************************)
EXTENDS Integers, Sequences, FiniteSets, TLC

VARIABLES
    transactions,   \* table transactions: sequence of rows, row i has id i
    enriched,       \* table enriched_transactions: set of rows
    insights,       \* table advice_insights: set of rows
    nextAdviceId,   \* the serial behind advice_insights.id
    cache,          \* content of the Redis cache: cache key -> stored dict
    redisHandle,    \* ai._redis: "None" or "Redis"
    redisUp,        \* whether the Redis server answers
    client,         \* ai._client: "None" or "OpenAI"
    request,        \* the last request: its parameters and what it met
    response        \* the answer of the last request

vars == <<transactions, enriched, insights, nextAdviceId, cache,
          redisHandle, redisUp, client, request, response>>

-----------------------------------------------------------------------------
(* Bounds of the model *)

MaxTx == 3

(* A run of the analysis stores insights only while at most this many
   insights were stored before it *)
MaxPriorInsights == 0

(* date.today(), as a day number *)
Today == 100

-----------------------------------------------------------------------------
(* F(v), with v evaluated once *)
Strict(F(_), v) == CHOOSE r \in {F(x) : x \in {v}} : TRUE

-----------------------------------------------------------------------------
(* Python strings *)

None == <<"None">>

Truthy(s) == s # None /\ s # <<>>

PyOr(a, b) == IF Truthy(a) THEN a ELSE b

IsSpace(c) == c = " "

LowerChar(c) ==
    CASE c = "A" -> "a"
      [] c = "B" -> "b"
      [] OTHER -> c

Lower(s) == [i \in 1..Len(s) |-> LowerChar(s[i])]

RECURSIVE LStrip(_)
LStrip(s) ==
    IF s = <<>> THEN <<>>
    ELSE IF IsSpace(Head(s)) THEN LStrip(Tail(s)) ELSE s

RECURSIVE RStrip(_)
RStrip(s) ==
    IF s = <<>> THEN <<>>
    ELSE IF IsSpace(s[Len(s)]) THEN RStrip(SubSeq(s, 1, Len(s) - 1)) ELSE s

Strip(s) == RStrip(LStrip(s))

(* str.split(): the maximal runs of non-whitespace characters *)
RECURSIVE SplitFrom(_, _, _)
SplitFrom(s, word, acc) ==
    IF s = <<>> THEN (IF word = <<>> THEN acc ELSE Append(acc, word))
    ELSE IF IsSpace(Head(s))
         THEN SplitFrom(Tail(s), <<>>, IF word = <<>> THEN acc ELSE Append(acc, word))
         ELSE SplitFrom(Tail(s), Append(word, Head(s)), acc)

Split(s) == SplitFrom(s, <<>>, <<>>)

(* " ".join(words) *)
RECURSIVE Join(_)
Join(words) ==
    IF words = <<>> THEN <<>>
    ELSE IF Len(words) = 1 THEN Head(words)
    ELSE Head(words) \o <<" ">> \o Join(Tail(words))

(* The field normalize_key takes the key from *)
Chosen(desc, merchant_raw, merchant_enriched) ==
    PyOr(merchant_enriched, PyOr(merchant_raw, PyOr(desc, <<>>)))

(* normalize_key that strips and lowers the field but keeps inner whitespace *)
normalize_key_keeps_inner_spaces(desc, merchant_raw, merchant_enriched) ==
    Lower(Strip(PyOr(merchant_enriched, PyOr(merchant_raw, PyOr(desc, <<>>)))))

normalize_key(desc, merchant_raw, merchant_enriched) ==
    LET base == Lower(Strip(Chosen(desc, merchant_raw, merchant_enriched)))
    IN  Join(Split(base))

-----------------------------------------------------------------------------
(* Money *)

Abs(x) == IF x < 0 THEN -x ELSE x

(* estimate_monthly_from_window with the roles of 30 and days exchanged *)
estimate_monthly_scaled_by_days(total_in_window, days) ==
    IF days <= 0 THEN total_in_window
    ELSE (total_in_window * days) \div 30

estimate_monthly_from_window(total_in_window, days) ==
    IF days <= 0 THEN total_in_window
    ELSE (total_in_window * 30) \div days


(* Float arithmetic of future_value_monthly_contrib in fixed point: the rate
   is in basis points per year (700 is 0.07), (1 + r) ** n is carried with six
   decimals, the annuity factor with four. *)
(* One month of compounding, and twelve *)
CompoundOf(x, annual_rate) == x + (x * annual_rate) \div 120000

Compound(acc, annual_rate) == Strict(LAMBDA x : CompoundOf(x, annual_rate), acc)

Compound3(acc, annual_rate) ==
    Compound(Compound(Compound(acc, annual_rate), annual_rate), annual_rate)

Compound12(acc, annual_rate) ==
    Compound3(Compound3(Compound3(Compound3(acc, annual_rate), annual_rate),
                        annual_rate), annual_rate)

(* acc * (1 + r) ** n *)
RECURSIVE PowOnePlusR(_, _, _)
PowOnePlusR(annual_rate, n, acc) ==
    IF n = 0 THEN acc
    ELSE IF n >= 12
    THEN Strict(LAMBDA a : PowOnePlusR(annual_rate, n - 12, a), Compound12(acc, annual_rate))
    ELSE Strict(LAMBDA a : PowOnePlusR(annual_rate, n - 1, a), Compound(acc, annual_rate))

(* future_value_monthly_contrib that takes years for the number of periods *)
future_value_yearly_periods(contrib_per_month, annual_rate, years) ==
    IF annual_rate <= -10000 THEN 0
    ELSE LET n == years
         IN  IF annual_rate = 0 THEN contrib_per_month * n
             ELSE LET factor == ((PowOnePlusR(annual_rate, n, 1000000) - 1000000) * 1200)
                                    \div annual_rate
                  IN  (contrib_per_month * factor) \div 10000

future_value_monthly_contrib(contrib_per_month, annual_rate, years) ==
    IF annual_rate <= -10000 THEN 0
    ELSE LET n == years * 12
         IN  IF annual_rate = 0 THEN contrib_per_month * n
             ELSE LET factor == ((PowOnePlusR(annual_rate, n, 1000000) - 1000000) * 1200)
                                    \div annual_rate
                  IN  (contrib_per_month * factor) \div 10000

-----------------------------------------------------------------------------
(* Python dicts and JSON values *)

Get(d, k, default) == IF k \in DOMAIN d THEN d[k] ELSE default

SetDefault(d, k, v) == IF k \in DOMAIN d THEN d ELSE d @@ (k :> v)

(* json.loads results that are no object: an array, a number, a string *)
JsonArray == [json |-> "array"]

(* Python None where a dict is expected *)
NoneValue == [json |-> "null"]

IsDict(v) == "json" \notin DOMAIN v

-----------------------------------------------------------------------------
(* ai.py *)

_cache_key(description, amount) == <<description, amount>>

(* [raised, value]: redis raises ConnectionError when the server is gone *)
_get_cache(description, amount) ==
    IF redisHandle = "None" THEN [raised |-> FALSE, value |-> NoneValue]
    ELSE IF ~redisUp THEN [raised |-> TRUE, value |-> NoneValue]
    ELSE IF _cache_key(description, amount) \in DOMAIN cache
         THEN [raised |-> FALSE, value |-> cache[_cache_key(description, amount)]]
         ELSE [raised |-> FALSE, value |-> NoneValue]

(* [raised, cache]: the cache after setex *)
_set_cache(description, amount, value) ==
    IF redisHandle = "None" THEN [raised |-> FALSE, cache |-> cache]
    ELSE IF ~redisUp THEN [raised |-> TRUE, cache |-> cache]
    ELSE LET k == _cache_key(description, amount)
         IN  [raised |-> FALSE,
              cache |-> [x \in (DOMAIN cache) \cup {k} |->
                            IF x = k THEN value ELSE cache[x]]]

_no_key_fallback ==
    [merchant |-> None, category |-> "Groceries", subcategory |-> "null",
     is_subscription |-> FALSE, confidence |-> 50,
     notes |-> "OPENAI_API_KEY missing; returned fallback."]

_error_payload(msg) ==
    [merchant |-> None, category |-> "null", subcategory |-> "null",
     is_subscription |-> FALSE, confidence |-> 0, notes |-> msg]

(* data.setdefault("subcategory", None); a missing confidence becomes 0.5 *)
FillDefaults(data) ==
    SetDefault(SetDefault(data, "subcategory", "null"), "confidence", 50)

(* An answer of the chat-completions call of _fallback_chat_tools:
   exc is the exception create() raises ("none": it returns), choices whether
   resp.choices[0].message exists, tool_calls whether the message has tool
   calls, parses whether the arguments (or the content) are JSON, and content
   the JSON value they hold.  [raised, value, calls] *)
_fallback_chat_tools(description, amount, fb) ==
    IF client = "None" THEN [raised |-> FALSE, value |-> _no_key_fallback, calls |-> 0]
    ELSE IF fb.exc \in {"APIConnectionError", "APITimeoutError"}
    THEN [raised |-> FALSE, value |-> _error_payload("OpenAI connection/timeout error."), calls |-> 1]
    ELSE IF fb.exc = "RateLimitError"
    THEN [raised |-> FALSE, value |-> _error_payload("Rate limited by OpenAI"), calls |-> 1]
    ELSE IF fb.exc = "BadRequestError"
    THEN [raised |-> FALSE, value |-> _error_payload("OpenAI BadRequest"), calls |-> 1]
    ELSE IF fb.exc # "none"
    THEN [raised |-> FALSE, value |-> _error_payload("OpenAI error"), calls |-> 1]
    ELSE IF ~fb.choices
    THEN [raised |-> FALSE, value |-> _error_payload("No choices/message in response"), calls |-> 1]
    ELSE IF ~fb.tool_calls
    THEN (IF fb.parses
          THEN [raised |-> FALSE, value |-> fb.content, calls |-> 1]
          ELSE [raised |-> FALSE, value |-> _error_payload("Model did not return a tool call."), calls |-> 1])
    ELSE IF ~fb.parses
    THEN [raised |-> FALSE, value |-> _error_payload("Failed to parse tool call"), calls |-> 1]
    ELSE IF ~IsDict(fb.content)
    THEN [raised |-> TRUE, value |-> NoneValue, calls |-> 1]
    ELSE [raised |-> FALSE, value |-> FillDefaults(fb.content), calls |-> 1]

(* What categorize_with_openai gives its caller: raised_in names the call
   whose exception leaves the function ("none": it returns value), cache is
   the content of the cache afterwards, calls the number of requests made to
   the AI service *)
Returned(value, cache_after, calls) ==
    [raised |-> FALSE, raised_in |-> "none", value |-> value,
     cache |-> cache_after, calls |-> calls]

Raised(where, calls) ==
    [raised |-> TRUE, raised_in |-> where, value |-> NoneValue,
     cache |-> cache, calls |-> calls]

(* The tail of categorize_with_openai, from data.setdefault to return data,
   for data obtained with the given number of external calls *)
FinishCategorize(description, amount, data, calls) ==
    IF ~IsDict(data)
    THEN Raised("setdefault", calls)
    ELSE LET filled == FillDefaults(data)
             w == _set_cache(description, amount, filled)
         IN  IF w.raised
             THEN Raised("_set_cache", calls)
             ELSE Returned(filled, w.cache, calls)

(* data = _fallback_chat_tools(description, amount) in an except clause,
   after made requests were sent to the AI service *)
ViaFallback(description, amount, fb, made) ==
    LET f == _fallback_chat_tools(description, amount, fb)
    IN  IF f.raised
        THEN Raised("_fallback_chat_tools", made + f.calls)
        ELSE FinishCategorize(description, amount, f.value, made + f.calls)

(* prim is the answer of the Responses call: exc the exception raised by
   create() or by json.loads(resp.output_text) ("none": neither raises), and
   content the parsed JSON value.  The SDK raises the TypeError about
   response_format before it sends anything; the other exceptions follow a
   request that was sent.  [raised, value, cache, calls] *)
categorize_with_openai(description, amount, prim, fb) ==
    LET cached == _get_cache(description, amount)
        Direct(v) == Returned(v, cache, 1)
    IN  IF cached.raised
        THEN Raised("_get_cache", 0)
        ELSE IF cached.value # NoneValue
        THEN Returned(cached.value, cache, 0)
        ELSE IF client = "None"
        THEN Returned(_no_key_fallback, cache, 0)
        ELSE IF prim.exc = "TypeError_response_format"
        THEN ViaFallback(description, amount, fb, 0)
        ELSE IF prim.exc = "TypeError"
        THEN Direct(_error_payload("TypeError"))
        ELSE IF prim.exc \in {"APIConnectionError", "APITimeoutError"}
        THEN Direct(_error_payload("OpenAI connection/timeout error."))
        ELSE IF prim.exc = "RateLimitError"
        THEN Direct(_error_payload("Rate limited by OpenAI"))
        ELSE IF prim.exc = "BadRequestError"
        THEN Direct(_error_payload("OpenAI BadRequest"))
        ELSE IF prim.exc # "none"
        THEN ViaFallback(description, amount, fb, 1)
        ELSE FinishCategorize(description, amount, prim.content, 1)


-----------------------------------------------------------------------------
(* main.py: tables *)

TxIds == 1..Len(transactions)

(* A (Transaction, EnrichedTransaction) outer join yields no enrichment *)
NoRow == [transaction_id |-> 0]

EnrichedOf(tx_id) ==
    IF \E r \in enriched : r.transaction_id = tx_id
    THEN CHOOSE r \in enriched : r.transaction_id = tx_id
    ELSE NoRow

NullNumber == 0 - 1

(* row.merchant = result.get("merchant") ... of categorize *)
EnrichedRow(tx_id, result) ==
    [transaction_id |-> tx_id,
     merchant |-> Get(result, "merchant", None),
     category |-> Get(result, "category", "null"),
     subcategory |-> Get(result, "subcategory", "null"),
     is_subscription |-> Get(result, "is_subscription", FALSE),
     confidence |-> Get(result, "confidence", 0),
     notes |-> Get(result, "notes", "null"),
     spending_class |-> Get(result, "spending_class", "null")]

(* Upsert that adds a row without looking for the one already stored *)
UpsertAlwaysAdds(rows, tx_id, result) ==
    rows \cup {EnrichedRow(tx_id, result)}

(* The query-then-add of categorize: the row found is overwritten, a row is
   added only when none is found *)
Upsert(rows, tx_id, result) ==
    IF \E r \in rows : r.transaction_id = tx_id
    THEN (rows \ {CHOOSE r \in rows : r.transaction_id = tx_id})
             \cup {EnrichedRow(tx_id, result)}
    ELSE rows \cup {EnrichedRow(tx_id, result)}

-----------------------------------------------------------------------------
(* POST /transactions *)

CreateTransaction(body) ==
    /\ Len(transactions) < MaxTx
    /\ transactions' = Append(transactions,
           [id |-> Len(transactions) + 1, date |-> body.date,
            description |-> body.description, amount |-> body.amount,
            merchant_raw |-> body.merchant_raw])
    /\ request' = [op |-> "create_transaction"]
    /\ response' = [status |-> 201, id |-> Len(transactions) + 1]
    /\ UNCHANGED <<enriched, insights, nextAdviceId, cache, redisHandle, redisUp, client>>

-----------------------------------------------------------------------------
(* POST /categorize.  An exception that leaves the handler is answered by
   the framework with status 500. *)

(* The call of responses.create, or the parsing of its output, failed: it
   raised, or the output is no JSON object *)
PrimFailed(prim) == prim.exc # "none" \/ ~IsDict(prim.content)

(* The same for the chat-completions call of _fallback_chat_tools *)
FbFailed(fb) ==
    fb.exc # "none" \/ ~fb.choices \/ ~fb.parses \/ ~IsDict(fb.content)

(* Whether the last of the calls made to the AI service failed *)
LastCallFailed(prim, fb, calls) ==
    CASE calls = 0 -> FALSE
      [] calls = 1 /\ prim.exc # "TypeError_response_format" -> PrimFailed(prim)
      [] OTHER -> FbFailed(fb)

Categorize(body, prim, fb) ==
    \E r \in {categorize_with_openai(body.description, body.amount, prim, fb)} :
    LET known == body.transaction_id \in TxIds
    IN  /\ request' = [op |-> "categorize", body |-> body,
                       cache_down |-> ~redisUp,
                       cache_hit |-> (~r.raised /\ _get_cache(body.description, body.amount).value # NoneValue),
                       calls |-> r.calls,
                       ai_failed |-> LastCallFailed(prim, fb, r.calls),
                       had_row |-> (\E x \in enriched : x.transaction_id = body.transaction_id),
                       raised_in |-> r.raised_in,
                       result |-> r.value]
        /\ cache' = r.cache
        /\ IF r.raised
           THEN /\ response' = [status |-> 500]
                /\ UNCHANGED enriched
           ELSE IF body.transaction_id = 0
           THEN /\ response' = [status |-> 200, value |-> EnrichedRow(0, r.value)]
                /\ UNCHANGED enriched
           ELSE IF ~known
           THEN /\ response' = [status |-> 404]
                /\ UNCHANGED enriched
           ELSE /\ enriched' = Upsert(enriched, body.transaction_id, r.value)
                /\ response' = [status |-> 200,
                                value |-> EnrichedRow(body.transaction_id, r.value)]
        /\ UNCHANGED <<transactions, insights, nextAdviceId, redisHandle, redisUp, client>>

(* The Redis server stops or resumes answering; a stored value expires *)
RedisFail ==
    /\ redisUp
    /\ redisUp' = FALSE
    /\ UNCHANGED <<transactions, enriched, insights, nextAdviceId, cache,
                   redisHandle, client, request, response>>

RedisRecover ==
    /\ ~redisUp
    /\ redisUp' = TRUE
    /\ UNCHANGED <<transactions, enriched, insights, nextAdviceId, cache,
                   redisHandle, client, request, response>>

CacheExpire(k) ==
    /\ k \in DOMAIN cache
    /\ cache' = [x \in (DOMAIN cache) \ {k} |-> cache[x]]
    /\ UNCHANGED <<transactions, enriched, insights, nextAdviceId,
                   redisHandle, redisUp, client, request, response>>


-----------------------------------------------------------------------------
(* advisor.py: the chat-completions calls.  An answer of the AI service is
   [exc, content]: exc whether create() raises, content the text of
   resp.choices[0].message.content. *)

AltText == "Alternative: Three SIM-only at 15/month (save 5/month)."
NoAltText == "No known cheaper alternatives available in the Irish market."
GarbageText == "Sorry, I cannot help with that."
ViableRecipeText == "{title: Home brew, is_viable: true}"
NotViableRecipeText == "{title: Not suitable, is_viable: false}"
ArrayText == "[]"

(* "no known cheaper alternatives" in alternative.lower() *)
HasNoKnownPhrase(text) == text = NoAltText

(* [raised, text] *)
find_cheaper_alt(service, current_price, answer) ==
    IF client = "None" \/ answer.exc
    THEN [raised |-> TRUE, text |-> ""]
    ELSE [raised |-> FALSE, text |-> answer.content]

ViableRecipe == [title |-> "Home brew", is_viable |-> TRUE]
NotViableRecipe == [title |-> "Not suitable", is_viable |-> FALSE]
FallbackRecipe == [title |-> "Homemade Alternative", is_viable |-> TRUE]

(* json.loads(content): [raised, value] *)
JsonLoads(content) ==
    CASE content = ViableRecipeText -> [raised |-> FALSE, value |-> ViableRecipe]
      [] content = NotViableRecipeText -> [raised |-> FALSE, value |-> NotViableRecipe]
      [] content = ArrayText -> [raised |-> FALSE, value |-> JsonArray]
      [] OTHER -> [raised |-> TRUE, value |-> NoneValue]

(* Every exception inside the try is answered with the fallback recipe *)
suggest_recipe_for(item_name, brand_hint, answer) ==
    IF client = "None" \/ answer.exc \/ JsonLoads(answer.content).raised
    THEN FallbackRecipe
    ELSE JsonLoads(answer.content).value

-----------------------------------------------------------------------------
(* POST /advice/run *)

Since(days) == Today - days

WindowIds(days) == {i \in TxIds : transactions[i].date >= Since(days)}

(* The orders in which the query may return the rows: by date, newest first.
   The order of the rows of one date is the database's choice; the model
   takes them by ascending or by descending id. *)
Before(o, i, j, asc) ==
    \/ transactions[o[i]].date > transactions[o[j]].date
    \/ /\ transactions[o[i]].date = transactions[o[j]].date
       /\ IF asc THEN o[i] < o[j] ELSE o[i] > o[j]

RowOrders(days) ==
    Strict(LAMBDA W :
               {o \in [1..Cardinality(W) -> W] :
                   \E asc \in BOOLEAN :
                       \A i, j \in 1..Cardinality(W) : i < j => Before(o, i, j, asc)},
           WindowIds(days))

KeyOf(tx_id) ==
    LET t == transactions[tx_id]
        e == EnrichedOf(tx_id)
    IN  normalize_key(t.description, t.merchant_raw,
                      IF e # NoRow THEN e.merchant ELSE None)

(* AddToGroup that adds the signed amount to the total *)
AddToGroupSigned(groups, t, key) ==
    LET withKey == IF \E i \in 1..Len(groups) : groups[i].key = key
                   THEN groups
                   ELSE Append(groups,
                           [key |-> key, transactions |-> <<>>,
                            total_amount |-> 0,
                            sample_transaction |-> t.id,
                            sample_enrichment |-> EnrichedOf(t.id)])
    IN  Strict(LAMBDA w : [i \in 1..Len(w) |->
                             IF w[i].key = key
                             THEN [w[i] EXCEPT
                                      !.transactions = Append(@, t.id),
                                      !.total_amount = @ + t.amount]
                             ELSE w[i]],
               withKey)

(* One pass of the loop over rows: the group of key, made when the key is
   new, takes the transaction and its absolute amount *)
AddToGroup(groups, t, key) ==
    LET withKey == IF \E i \in 1..Len(groups) : groups[i].key = key
                   THEN groups
                   ELSE Append(groups,
                           [key |-> key, transactions |-> <<>>,
                            total_amount |-> 0,
                            sample_transaction |-> t.id,
                            sample_enrichment |-> EnrichedOf(t.id)])
    IN  Strict(LAMBDA w : [i \in 1..Len(w) |->
                             IF w[i].key = key
                             THEN [w[i] EXCEPT
                                      !.transactions = Append(@, t.id),
                                      !.total_amount = @ + Abs(t.amount)]
                             ELSE w[i]],
               withKey)

(* The loop over rows that fills the dict groups; a dict keeps the order in
   which its keys were inserted *)
RECURSIVE GroupRows(_, _)
GroupRows(order, groups) ==
    IF order = <<>> THEN groups
    ELSE Strict(LAMBDA g : GroupRows(Tail(order), g),
                Strict(LAMBDA key : AddToGroup(groups, transactions[Head(order)], key),
                       KeyOf(Head(order))))

(* The dict groups after the loop, for every order of the rows *)
Groupings(days) == {GroupRows(order, <<>>) : order \in RowOrders(days)}

Take(s, n) == SubSeq(s, 1, IF Len(s) < n THEN Len(s) ELSE n)

NoInsight == [kind |-> "none"]

(* SwitchInsight that projects the saving without interest *)
SwitchInsightProjectsWithoutInterest(key, monthly_cost, tx_ids) ==
    LET potential_savings == (monthly_cost * 2) \div 10
    IN  [kind |-> "switch",
         monthly_saving |-> potential_savings,
         annual_saving |-> potential_savings * 12,
         projection_10y |-> future_value_monthly_contrib(potential_savings, 0, 10),
         confidence |-> 75,
         tx_ids |-> Take(tx_ids, 5),
         merchant_key |-> key,
         recipe |-> NoneValue]

SwitchInsight(key, monthly_cost, tx_ids) ==
    LET potential_savings == (monthly_cost * 2) \div 10
    IN  [kind |-> "switch",
         monthly_saving |-> potential_savings,
         annual_saving |-> potential_savings * 12,
         projection_10y |-> future_value_monthly_contrib(potential_savings, 700, 10),
         confidence |-> 75,
         tx_ids |-> Take(tx_ids, 5),
         merchant_key |-> key,
         recipe |-> NoneValue]

(* MonitorInsight that lists the first transactions of the table instead
   of those of the group *)
MonitorInsightListsAllRows(key, monthly_cost, tx_ids) ==
    [kind |-> "monitor",
     monthly_saving |-> NullNumber,
     annual_saving |-> NullNumber,
     projection_10y |-> NullNumber,
     confidence |-> 50,
     tx_ids |-> Take([i \in 1..Len(transactions) |-> i], 5),
     merchant_key |-> key,
     recipe |-> NoneValue]

MonitorInsight(key, monthly_cost, tx_ids) ==
    [kind |-> "monitor",
     monthly_saving |-> NullNumber,
     annual_saving |-> NullNumber,
     projection_10y |-> NullNumber,
     confidence |-> 50,
     tx_ids |-> Take(tx_ids, 5),
     merchant_key |-> key,
     recipe |-> NoneValue]

(* CutbackInsight that attaches the fallback recipe instead of the one the
   service returned *)
CutbackInsightFallbackRecipe(key, est_monthly, tx_ids, recipe) ==
    LET cut_amount == (est_monthly * 3) \div 10
        projection == future_value_monthly_contrib(cut_amount, 700, 10)
    IN  [kind |-> "cutback",
         monthly_saving |-> cut_amount,
         annual_saving |-> cut_amount * 12,
         projection_10y |-> projection,
         confidence |-> 60,
         tx_ids |-> Take(tx_ids, 10),
         merchant_key |-> key,
         recipe |-> FallbackRecipe]

CutbackInsight(key, est_monthly, tx_ids, recipe) ==
    LET cut_amount == (est_monthly * 3) \div 10
        projection == future_value_monthly_contrib(cut_amount, 700, 10)
    IN  [kind |-> "cutback",
         monthly_saving |-> cut_amount,
         annual_saving |-> cut_amount * 12,
         projection_10y |-> projection,
         confidence |-> 60,
         tx_ids |-> Take(tx_ids, 10),
         merchant_key |-> key,
         recipe |-> recipe]

(* Which branch of the loop body the group takes *)
Branch(group, days) ==
    LET e == group.sample_enrichment
    IN  IF e = NoRow THEN "skip"
        ELSE IF e.is_subscription THEN "subscription"
        ELSE IF e.spending_class = "want" /\ Len(group.transactions) >= 3
        THEN (IF estimate_monthly_from_window(group.total_amount, days) < 500
              THEN "skip" ELSE "want")
        ELSE "skip"

(* ProcessGroup that takes the monthly estimate as the monthly cost of a
   subscription also when the group has a single transaction *)
ProcessGroupAlwaysEstimates(group, days, answer) ==
    LET txs == group.transactions
        est_monthly == estimate_monthly_from_window(group.total_amount, days)
        monthly_cost == est_monthly
    IN  CASE Branch(group, days) = "subscription" ->
               LET alternative == find_cheaper_alt(group.key, monthly_cost, answer)
               IN  IF alternative.raised
                   THEN [raised |-> TRUE, insight |-> NoInsight]
                   ELSE IF alternative.text # "" /\ ~HasNoKnownPhrase(alternative.text)
                   THEN [raised |-> FALSE,
                         insight |-> SwitchInsight(group.key, monthly_cost, txs)]
                   ELSE [raised |-> FALSE,
                         insight |-> MonitorInsight(group.key, monthly_cost, txs)]
          [] Branch(group, days) = "want" ->
               LET recipe == suggest_recipe_for(group.key, group.key, answer)
               IN  IF ~IsDict(recipe)
                   THEN [raised |-> TRUE, insight |-> NoInsight]
                   ELSE IF Get(recipe, "is_viable", TRUE) /\ "title" \notin DOMAIN recipe
                   THEN [raised |-> TRUE, insight |-> NoInsight]
                   ELSE [raised |-> FALSE,
                         insight |-> CutbackInsight(group.key, est_monthly, txs, recipe)]
          [] OTHER -> [raised |-> FALSE, insight |-> NoInsight]

(* One pass of the loop over groups: [raised, insight] *)
ProcessGroup(group, days, answer) ==
    LET txs == group.transactions
        est_monthly == estimate_monthly_from_window(group.total_amount, days)
        monthly_cost == IF Len(txs) > 1 THEN est_monthly
                        ELSE Abs(transactions[group.sample_transaction].amount)
    IN  CASE Branch(group, days) = "subscription" ->
               LET alternative == find_cheaper_alt(group.key, monthly_cost, answer)
               IN  IF alternative.raised
                   THEN [raised |-> TRUE, insight |-> NoInsight]
                   ELSE IF alternative.text # "" /\ ~HasNoKnownPhrase(alternative.text)
                   THEN [raised |-> FALSE,
                         insight |-> SwitchInsight(group.key, monthly_cost, txs)]
                   ELSE [raised |-> FALSE,
                         insight |-> MonitorInsight(group.key, monthly_cost, txs)]
          [] Branch(group, days) = "want" ->
               LET recipe == suggest_recipe_for(group.key, group.key, answer)
               IN  IF ~IsDict(recipe)
                   THEN [raised |-> TRUE, insight |-> NoInsight]
                   ELSE IF Get(recipe, "is_viable", TRUE) /\ "title" \notin DOMAIN recipe
                   THEN [raised |-> TRUE, insight |-> NoInsight]
                   ELSE [raised |-> FALSE,
                         insight |-> CutbackInsight(group.key, est_monthly, txs, recipe)]
          [] OTHER -> [raised |-> FALSE, insight |-> NoInsight]


WithId(ins, id) ==
    [id |-> id, kind |-> ins.kind, monthly_saving |-> ins.monthly_saving,
     annual_saving |-> ins.annual_saving, projection_10y |-> ins.projection_10y,
     confidence |-> ins.confidence, tx_ids |-> ins.tx_ids,
     merchant_key |-> ins.merchant_key, recipe |-> ins.recipe]

(* The answer used for a group that makes no call *)
NoAnswer == [exc |-> FALSE, content |-> ""]

(* A session that writes every object to the table as soon as it is added *)
SessionWritesOnAdd(added, committed) == added

(* What a session of SessionLocal (autocommit and autoflush off) leaves in
   the table of the objects added to it: all of them after db.commit(), none
   when it is closed without a commit *)
SessionLocal(added, committed) == IF committed THEN added ELSE {}

(* An exception leaves the handler before db.commit(): the session is closed
   and nothing added to it is stored.  Otherwise the insights are inserted in
   the order in which they were added. *)
RunAdvice(days, groups, answers) ==
    \E res \in {[i \in 1..Len(groups) |-> ProcessGroup(groups[i], days, answers[i])]} :
    LET n == Len(groups)
        raising == {i \in 1..n : res[i].raised}
        first == CHOOSE i \in raising : \A j \in raising : i <= j
        reached == IF raising = {} THEN 1..n ELSE {i \in 1..n : i < first}
        emitting == {i \in reached : res[i].insight.kind # "none"}
        rank(i) == Cardinality({j \in emitting : j <= i})
        created == Cardinality(emitting)
        added == {WithId(res[i].insight, nextAdviceId + rank(i) - 1) : i \in emitting}
    IN  /\ request' = [op |-> "advice_run", days |-> days, groups |-> groups,
                       answers |-> answers,
                       failed |-> IF raising = {} THEN {} ELSE {groups[first].key},
                       added |-> created]
        /\ IF raising # {}
           THEN /\ response' = [status |-> 500]
                /\ insights' = insights \cup SessionLocal(added, FALSE)
                /\ UNCHANGED nextAdviceId
           ELSE /\ created > 0 => nextAdviceId - 1 <= MaxPriorInsights
                /\ response' = [status |-> 200, created |-> created,
                                analyzed_days |-> days]
                /\ insights' = insights \cup SessionLocal(added, TRUE)
                /\ nextAdviceId' = nextAdviceId + created
        /\ UNCHANGED <<transactions, enriched, cache, redisHandle, redisUp, client>>

-----------------------------------------------------------------------------
(* DELETE /advice/{advice_id} *)

(* DeleteAdvice without the lookup that answers 404 *)
DeleteAdviceNoLookup(advice_id) ==
    /\ request' = [op |-> "delete_advice", advice_id |-> advice_id]
    /\ insights' = {i \in insights : i.id # advice_id}
    /\ response' = [status |-> 200]
    /\ UNCHANGED <<transactions, enriched, nextAdviceId, cache, redisHandle, redisUp, client>>

DeleteAdvice(advice_id) ==
    /\ request' = [op |-> "delete_advice", advice_id |-> advice_id]
    /\ IF \E i \in insights : i.id = advice_id
       THEN /\ insights' = insights \ {CHOOSE i \in insights : i.id = advice_id}
            /\ response' = [status |-> 200]
       ELSE /\ response' = [status |-> 404]
            /\ UNCHANGED insights
    /\ UNCHANGED <<transactions, enriched, nextAdviceId, cache, redisHandle, redisUp, client>>

-----------------------------------------------------------------------------
(* The requests and the answers of the external services the model draws from *)

TxBodies ==
    { [date |-> 80, description |-> <<"B">>, amount |-> 0 - 200,
       merchant_raw |-> <<"A", " ">>],
      [date |-> 20, description |-> <<"B">>, amount |-> 2000, merchant_raw |-> None] }

ObjSub ==
    [merchant |-> None, category |-> "Entertainment", is_subscription |-> TRUE,
     confidence |-> 90, notes |-> "null", spending_class |-> "want"]

ObjWant ==
    [merchant |-> <<" ", "a">>, category |-> "Dining", is_subscription |-> FALSE,
     notes |-> "null", spending_class |-> "want"]

Ok(content) == [exc |-> "none", content |-> content]
Exc(name) == [exc |-> name, content |-> NoneValue]

ToolCall(content) ==
    [exc |-> "none", choices |-> TRUE, tool_calls |-> TRUE, parses |-> TRUE,
     content |-> content]
NoToolCall ==
    [exc |-> "none", choices |-> TRUE, tool_calls |-> FALSE, parses |-> FALSE,
     content |-> NoneValue]
FbExc(name) ==
    [exc |-> name, choices |-> FALSE, tool_calls |-> FALSE, parses |-> FALSE,
     content |-> NoneValue]

DaysChoices == {30, 90}

(* Answers to the call of find_cheaper_alt and to that of suggest_recipe_for *)
AltAnswers ==
    {[exc |-> TRUE, content |-> ""]} \cup
    {[exc |-> FALSE, content |-> c] : c \in {AltText, NoAltText, GarbageText}}

RecipeAnswers ==
    {[exc |-> TRUE, content |-> ""]} \cup
    {[exc |-> FALSE, content |-> c] : c \in {ViableRecipeText, ArrayText}}

AnswersOf(branch) ==
    CASE branch = "subscription" -> AltAnswers
      [] branch = "want" -> RecipeAnswers
      [] OTHER -> {NoAnswer}

(* One answer for each group that makes a call *)
RECURSIVE AnswersFor(_, _)
AnswersFor(groups, days) ==
    IF groups = <<>> THEN {<<>>}
    ELSE {<<a>> \o rest :
            a \in AnswersOf(Branch(Head(groups), days)),
            rest \in AnswersFor(Tail(groups), days)}

CatBodies ==
    {[description |-> <<"a">>, amount |-> 0 - 200, transaction_id |-> t] :
        t \in 1..MaxTx}

PrimAnswers == {Ok(ObjSub), Ok(ObjWant)}

-----------------------------------------------------------------------------
(* The service without a cache: Redis did not answer when ai.py was loaded *)

NoCache == [k \in {} |-> NoneValue]

Init ==
    /\ transactions = <<>>
    /\ enriched = {}
    /\ insights = {}
    /\ nextAdviceId = 1
    /\ cache = NoCache
    /\ redisHandle = "None"
    /\ redisUp = FALSE
    /\ client = "OpenAI"
    /\ request = [op |-> "none"]
    /\ response = [status |-> 0]

Next ==
    \/ \E body \in TxBodies : CreateTransaction(body)
    \/ \E body \in CatBodies, prim \in PrimAnswers :
           Categorize(body, prim, FbExc("APITimeoutError"))
    \/ \E days \in DaysChoices : \E groups \in Groupings(days) :
           \E answers \in AnswersFor(groups, days) :
               RunAdvice(days, groups, answers)
    \/ \E advice_id \in 1..nextAdviceId : DeleteAdvice(advice_id)

Spec == Init /\ [][Next]_vars


-----------------------------------------------------------------------------
(* Properties of the advice service (Spec).  Every action of Spec sets
   request, so request describes the step that led to the state, and on a
   step that sets request'.op to "advice_run" the tables transactions and
   enriched are those the run read. *)

(* tx_ids = [t.id for t in txs], as a set *)
IdsOf(txs) == {txs[k] : k \in 1..Len(txs)}

(* The sum of abs(float(t.amount)) over the transactions ids *)
RECURSIVE TotalOf(_)
TotalOf(ids) ==
    IF ids = {} THEN 0
    ELSE LET t == CHOOSE x \in ids : TRUE
         IN  Abs(transactions[t].amount) + TotalOf(ids \ {t})

(* The insights a step stores for the group of the given key *)
StoredFor(key, before, after) == {ins \in after \ before : ins.merchant_key = key}

(* C1: in one POST /advice/run over several groups, an exception of an
   external AI call while one group is processed does not abort the run: the
   run answers normally, the failing group is skipped, and every other group
   that qualifies for an insight has its insight stored by this run. *)
C1_GroupFailureDoesNotAbortRun ==
    [][(request'.op = "advice_run" /\ request'.failed # {}) =>
          /\ response'.status = 200
          /\ \A i \in 1..Len(request'.groups) :
                (/\ request'.groups[i].key \notin request'.failed
                 /\ Branch(request'.groups[i], request'.days) # "skip")
                    => StoredFor(request'.groups[i].key, insights, insights') # {}]_vars

(* C4: in one POST /advice/run every group yields at most one insight, of
   kind switch or monitor exactly when the sample enrichment of the group has
   is_subscription true, of kind cutback exactly when is_subscription is
   false, spending_class is "want", the group has at least 3 transactions and
   its monthly estimate is at least 5 (500 cents), and none in every other
   case. *)
C4_DecisionTree ==
    [][request'.op = "advice_run" =>
          \A i \in 1..Len(request'.groups) :
             LET g == request'.groups[i]
                 e == g.sample_enrichment
                 new == StoredFor(g.key, insights, insights')
                 est == estimate_monthly_from_window(g.total_amount, request'.days)
             IN  /\ Cardinality(new) <= 1
                 /\ \A ins \in new : ins.kind \in {"switch", "monitor", "cutback"}
                 /\ (\E ins \in new : ins.kind \in {"switch", "monitor"})
                        <=> (e # NoRow /\ e.is_subscription)
                 /\ (\E ins \in new : ins.kind = "cutback")
                        <=> (/\ e # NoRow
                             /\ ~e.is_subscription
                             /\ e.spending_class = "want"
                             /\ Len(g.transactions) >= 3
                             /\ est >= 500)]_vars

(* C5: every stored insight either has monthly_saving, annual_saving and
   projection_10y all null and is of kind monitor, or is of kind switch or
   cutback and has annual_saving = monthly_saving * 12 and projection_10y =
   the future value of monthly_saving contributed monthly for 10 years at 7%
   a year, compounded monthly. *)
C5_SavingFigures ==
    \A ins \in insights :
        \/ /\ ins.kind = "monitor"
           /\ ins.monthly_saving = NullNumber
           /\ ins.annual_saving = NullNumber
           /\ ins.projection_10y = NullNumber
        \/ /\ ins.kind \in {"switch", "cutback"}
           /\ ins.monthly_saving # NullNumber
           /\ ins.annual_saving = ins.monthly_saving * 12
           /\ ins.projection_10y = future_value_monthly_contrib(ins.monthly_saving, 700, 10)

(* A monitor insight and a switch insight with a positive projection are
   stored together *)
C5_Witness ==
    \E a, b \in insights :
        /\ a.kind = "monitor"
        /\ b.kind = "switch"
        /\ b.monthly_saving > 0
        /\ b.projection_10y > b.annual_saving * 10

(* C8: insights are append-only.  A step that is no DELETE /advice/{id}
   keeps every stored insight as it is and gives new insights new ids;
   DELETE with the id of a stored insight answers 200 and removes exactly
   that insight; DELETE with an unknown id answers 404 and leaves all
   insights as they are. *)
C8_AppendOnlyDeleteById ==
    [][/\ \A new \in insights' \ insights : \A old \in insights : new.id # old.id
       /\ request'.op # "delete_advice" => insights \subseteq insights'
       /\ request'.op = "delete_advice" =>
             IF \E i \in insights : i.id = request'.advice_id
             THEN /\ response'.status = 200
                  /\ insights' = {i \in insights : i.id # request'.advice_id}
                  /\ Cardinality(insights') = Cardinality(insights) - 1
             ELSE /\ response'.status = 404
                  /\ insights' = insights]_vars

(* An insight was deleted and another one is still stored *)
C8_Witness ==
    /\ request.op = "delete_advice"
    /\ response.status = 200
    /\ insights # {}

(* C9: every id in the tx_ids of every stored insight is the id of an
   existing transaction, and when an insight is stored all its tx_ids are
   transactions of the one group the run made it for: the group whose key is
   the insight's merchant_key, which is the normalized key of each of them. *)
C9_TxIdsOfInsights ==
    [][\A ins \in insights' :
          /\ IdsOf(ins.tx_ids) \subseteq 1..Len(transactions')
          /\ ins.tx_ids # <<>>
          /\ ins \notin insights =>
                \E i \in 1..Len(request'.groups) :
                    /\ request'.groups[i].key = ins.merchant_key
                    /\ IdsOf(ins.tx_ids) \subseteq IdsOf(request'.groups[i].transactions)
                    /\ \A t \in IdsOf(ins.tx_ids) : KeyOf(t) = ins.merchant_key]_vars

(* A run over two groups has stored an insight that lists two transactions *)
C9_Witness ==
    /\ request.op = "advice_run"
    /\ Len(request.groups) = 2
    /\ \E ins \in insights : Len(ins.tx_ids) = 2

(* C10: the grouping step of POST /advice/run partitions the transactions
   dated on or after today - days: each of them is in exactly one group, once;
   a group holds nothing else and is not empty; two of them are in the same
   group exactly when their normalized keys are equal, and that key is the
   key of the group; the total of a group is the sum of the absolute amounts
   of its transactions. *)
C10_GroupingPartitions ==
    request.op = "advice_run" =>
        LET g == request.groups
            W == WindowIds(request.days)
        IN  /\ \A t \in W :
                   Cardinality({i \in 1..Len(g) : t \in IdsOf(g[i].transactions)}) = 1
            /\ \A i \in 1..Len(g) :
                   /\ IdsOf(g[i].transactions) # {}
                   /\ IdsOf(g[i].transactions) \subseteq W
                   /\ Cardinality(IdsOf(g[i].transactions)) = Len(g[i].transactions)
                   /\ \A t \in IdsOf(g[i].transactions) : KeyOf(t) = g[i].key
                   /\ g[i].total_amount = TotalOf(IdsOf(g[i].transactions))
            /\ \A t, u \in W :
                   (\E i \in 1..Len(g) : {t, u} \subseteq IdsOf(g[i].transactions))
                       <=> KeyOf(t) = KeyOf(u)

(* A run grouped three transactions in the window into two groups, one of
   them holding a transaction of negative and one of positive amount *)
C10_Witness ==
    /\ request.op = "advice_run"
    /\ Len(request.groups) = 2
    /\ \E i \in 1..2 :
          \E t, u \in IdsOf(request.groups[i].transactions) :
              transactions[t].amount < 0 /\ transactions[u].amount > 0

(* The monthly cost of a subscription group: the monthly estimate when the
   group has more than one transaction, else the absolute amount of its
   transaction *)
MonthlyCostOf(group, days) ==
    IF Len(group.transactions) > 1
    THEN estimate_monthly_from_window(group.total_amount, days)
    ELSE Abs(transactions[group.transactions[1]].amount)

(* C13: for a group whose sample enrichment has is_subscription true, the
   monthly cost is the monthly estimate when the group has more than one
   transaction and otherwise the absolute amount of its single transaction;
   when the call names a cheaper alternative a switch insight is stored, and
   a stored switch insight has monthly_saving = 20% of that monthly cost and
   annual_saving = 12 * monthly_saving. *)
C13_SwitchFigures ==
    [][request'.op = "advice_run" =>
          \A i \in 1..Len(request'.groups) :
              LET g == request'.groups[i]
                  new == StoredFor(g.key, insights, insights')
              IN  /\ (/\ response'.status = 200
                      /\ Branch(g, request'.days) = "subscription"
                      /\ request'.answers[i].content = AltText)
                         => \E ins \in new : ins.kind = "switch"
                  /\ \A ins \in new :
                        ins.kind = "switch" =>
                            /\ g.sample_enrichment.is_subscription
                            /\ ins.monthly_saving =
                                   (MonthlyCostOf(g, request'.days) * 2) \div 10
                            /\ ins.annual_saving = 12 * ins.monthly_saving]_vars

(* Three transactions totalling 60.00 over 90 days: monthly cost 20.00,
   monthly_saving 4.00, annual_saving 48.00 *)
C13_Witness ==
    /\ request.op = "advice_run"
    /\ request.days = 90
    /\ \E i \in 1..Len(request.groups) :
          /\ Len(request.groups[i].transactions) = 3
          /\ request.groups[i].total_amount = 6000
          /\ \E ins \in insights :
                /\ ins.kind = "switch"
                /\ ins.merchant_key = request.groups[i].key
                /\ ins.monthly_saving = 400
                /\ ins.annual_saving = 4800

(* C14: for a non-subscription group with spending_class "want", at least 3
   transactions and a monthly estimate of at least 5, the stored cutback
   insight has monthly_saving = 30% of the monthly estimate and
   annual_saving = 12 * monthly_saving and carries the recipe the external
   service returned; such a group with a monthly estimate below 5 stores
   nothing. *)
C14_CutbackFigures ==
    [][request'.op = "advice_run" =>
          \A i \in 1..Len(request'.groups) :
              LET g == request'.groups[i]
                  e == g.sample_enrichment
                  est == estimate_monthly_from_window(g.total_amount, request'.days)
                  new == StoredFor(g.key, insights, insights')
                  answer == request'.answers[i]
              IN  /\ \A ins \in new :
                        ins.kind = "cutback" =>
                            /\ ins.monthly_saving = (est * 3) \div 10
                            /\ ins.annual_saving = 12 * ins.monthly_saving
                            /\ (~answer.exc /\ ~JsonLoads(answer.content).raised)
                                  => ins.recipe = JsonLoads(answer.content).value
                  /\ (/\ e # NoRow
                      /\ ~e.is_subscription
                      /\ e.spending_class = "want"
                      /\ est < 500)
                         => new = {}]_vars

(* Three want transactions totalling 6.00 over 30 days: the cutback insight
   saves 1.80 a month, 21.60 a year, and carries the recipe returned *)
C14_Witness ==
    /\ request.op = "advice_run"
    /\ request.days = 30
    /\ \E ins \in insights :
          /\ ins.kind = "cutback"
          /\ Len(ins.tx_ids) = 3
          /\ ins.monthly_saving = 180
          /\ ins.annual_saving = 2160
          /\ ins.recipe = ViableRecipe

(* C22: POST /advice/run is all-or-nothing for the stored insights: a run
   that ends with an error stores none of the insights it built before the
   error; a run that ends normally keeps the insights stored before and adds
   as many AdviceInsight rows as the "created" count it returns. *)
C22_RunIsAllOrNothing ==
    [][request'.op = "advice_run" =>
          IF response'.status = 200
          THEN /\ insights \subseteq insights'
               /\ Cardinality(insights' \ insights) = response'.created
               /\ response'.created = request'.added
          ELSE insights' = insights]_vars

(* A run failed at its second group after it had built the insight of the
   first, and no insight is stored *)
C22_Witness ==
    /\ request.op = "advice_run"
    /\ response.status = 500
    /\ request.failed # {}
    /\ request.added > 0
    /\ insights = {}

(* C15: when the text returned for a subscription group is neither the "no
   cheaper alternatives" answer nor an "Alternative: ..." recommendation,
   and no external call of the run raises, the group is treated as having no
   alternative: the run answers normally and stores a monitor insight
   without saving figures for the group, and no switch insight. *)
C15_MalformedTextIsNoAlternative ==
    [][(request'.op = "advice_run" /\ request'.failed = {}) =>
          \A i \in 1..Len(request'.groups) :
              (/\ Branch(request'.groups[i], request'.days) = "subscription"
               /\ request'.answers[i].content \notin {AltText, NoAltText})
                  => /\ response'.status = 200
                     /\ \A ins \in StoredFor(request'.groups[i].key, insights, insights') :
                            /\ ins.kind = "monitor"
                            /\ ins.monthly_saving = NullNumber
                     /\ StoredFor(request'.groups[i].key, insights, insights') # {}]_vars

-----------------------------------------------------------------------------
(* The categorisation service with its cache: POST /transactions and
   POST /categorize, the Redis server failing and recovering, and cached
   values expiring.  ai.py keeps a Redis handle only when the server
   answered the ping at load time. *)

(* advisor.py ai_make_advice: the chat-completions call is made outside any
   try block, on _client as it is; the text returned is stripped.
   [raised, text] *)
ai_make_advice(description, amount, merchant, answer) ==
    IF client = "None" \/ answer.exc
    THEN [raised |-> TRUE, text |-> <<>>]
    ELSE [raised |-> FALSE, text |-> Strip(answer.content)]

(* GET /advisor/{transaction_id}.  An exception that leaves the handler is
   answered by the framework with status 500. *)
GetSingleAdvice(transaction_id, answer) ==
    /\ IF transaction_id \notin TxIds
       THEN /\ request' = [op |-> "single_advice", transaction_id |-> transaction_id,
                           merchant |-> None, ai_failed |-> FALSE]
            /\ response' = [status |-> 404]
       ELSE LET tx == transactions[transaction_id]
                row == EnrichedOf(transaction_id)
                merchant == IF row # NoRow THEN row.merchant ELSE tx.merchant_raw
                advice == ai_make_advice(tx.description, tx.amount, merchant, answer)
            IN  /\ request' = [op |-> "single_advice", transaction_id |-> transaction_id,
                               merchant |-> merchant, ai_failed |-> advice.raised]
                /\ response' = IF advice.raised
                               THEN [status |-> 500]
                               ELSE [status |-> 200, transaction_id |-> tx.id,
                                     advice |-> advice.text]
    /\ UNCHANGED <<transactions, enriched, insights, nextAdviceId, cache,
                   redisHandle, redisUp, client>>

(* Answers of the chat-completions call of ai_make_advice *)
AdviceAnswers ==
    {[exc |-> TRUE, content |-> <<>>],
     [exc |-> FALSE, content |-> <<"N", "o", " ">>]}

CatTxBodies ==
    { [date |-> 80, description |-> <<"B">>, amount |-> 0 - 200, merchant_raw |-> None] }

CatRequests ==
    {[description |-> <<"B">>, amount |-> 0 - 200, transaction_id |-> t] :
        t \in 0..(MaxTx + 1)}

(* A JSON object the service may answer with: the code parses it and does
   not compare it with SCHEMA *)
ObjPartial == [merchant |-> <<"a">>]

CatPrimAnswers ==
    {Ok(ObjWant), Ok(ObjPartial), Ok(JsonArray),
     Exc("APIConnectionError"), Exc("JSONDecodeError")}

CatFbAnswers ==
    {ToolCall(JsonArray), FbExc("APITimeoutError"), NoToolCall}

(* The fallback call is made only after these answers of the first call *)
ReachesFallback(prim) ==
    prim.exc \notin {"none", "TypeError", "APIConnectionError", "APITimeoutError",
                     "RateLimitError", "BadRequestError"}

InitCategorize ==
    /\ transactions = <<>>
    /\ enriched = {}
    /\ insights = {}
    /\ nextAdviceId = 1
    /\ cache = NoCache
    /\ redisUp \in BOOLEAN
    /\ redisHandle = IF redisUp THEN "Redis" ELSE "None"
    /\ client \in {"None", "OpenAI"}
    /\ request = [op |-> "none"]
    /\ response = [status |-> 0]

NextCategorize ==
    \/ \E body \in CatTxBodies : CreateTransaction(body)
    \/ \E body \in CatRequests, prim \in CatPrimAnswers, fb \in CatFbAnswers :
           /\ ~ReachesFallback(prim) => fb = NoToolCall
           /\ Categorize(body, prim, fb)
    \/ \E transaction_id \in 0..(MaxTx + 1), answer \in AdviceAnswers :
           GetSingleAdvice(transaction_id, answer)
    \/ RedisFail
    \/ RedisRecover
    \/ \E k \in DOMAIN cache : CacheExpire(k)

SpecCategorize == InitCategorize /\ [][NextCategorize]_vars

-----------------------------------------------------------------------------
(* Properties of the categorisation service (SpecCategorize).  Every request
   sets request; the Redis server failing or recovering and a cached value
   expiring leave it as it is. *)

(* C2: categorize_with_openai never raises to its caller: whenever the call
   to the AI service fails (an exception, or a malformed or non-object
   response), it returns an object with confidence 0 and a non-empty note. *)
C2_CategorizeNeverRaises ==
    (request.op = "categorize" /\ request.ai_failed) =>
        /\ request.raised_in = "none"
        /\ request.result.confidence = 0
        /\ request.result.notes \notin {"null", ""}

(* C3: a cache outage at any moment makes categorisation behave as a cache
   miss: neither the cache read nor the cache write makes
   categorize_with_openai raise. *)
C3_CacheOutageIsAMiss ==
    (request.op = "categorize" /\ request.cache_down) =>
        /\ request.raised_in \notin {"_get_cache", "_set_cache"}
        /\ ~request.cache_hit

(* C6: after any sequence of POST /transactions and POST /categorize, every
   enriched row references an existing transaction, no transaction has two
   enriched rows, and a categorize that stored its result left that result as
   the one row of the transaction, whether or not a row existed before. *)
C6_EnrichedOneToOne ==
    /\ \A r \in enriched : r.transaction_id \in TxIds
    /\ \A r1, r2 \in enriched : r1.transaction_id = r2.transaction_id => r1 = r2
    /\ (/\ request.op = "categorize"
        /\ response.status = 200
        /\ request.body.transaction_id # 0)
           => /\ response.value \in enriched
              /\ EnrichedOf(request.body.transaction_id) = response.value
              /\ response.value = EnrichedRow(request.body.transaction_id, request.result)

(* A categorize for a transaction that had a row stored its result, while
   another transaction has a row with a different result *)
C6_Witness ==
    /\ request.op = "categorize"
    /\ request.had_row
    /\ response.status = 200
    /\ \E r \in enriched : /\ r.transaction_id # request.body.transaction_id
                           /\ r.notes # response.value.notes

(* C7: POST /categorize with a transaction_id that matches no transaction
   answers 404 and leaves the enriched rows as they are.  (The handler takes
   transaction_id 0 for no transaction_id and answers 200; the statement is
   about the other ids.) *)
C7_UnknownTransactionIs404 ==
    [][(/\ request'.op = "categorize"
        /\ request'.body.transaction_id # 0
        /\ request'.body.transaction_id \notin TxIds) =>
          /\ response'.status = 404
          /\ enriched' = enriched]_vars

-----------------------------------------------------------------------------
(* The helper functions of advisor.py, applied to arguments drawn from
   bounded sets.  The initial state holds the call in request; the step that
   applies the function puts the value returned in response. *)

(* No value returned yet *)
NotApplied == [status |-> 0]

EstimateTotals == {0, 100, 499, 3000, 6000}
EstimateDays == {0 - 1, 0, 7, 30, 90}

EstimateCalls ==
    {[op |-> "estimate_monthly_from_window", total_in_window |-> total, days |-> days] :
        total \in EstimateTotals, days \in EstimateDays}

ApplyEstimateMonthly ==
    /\ request.op = "estimate_monthly_from_window"
    /\ response = NotApplied
    /\ response' = [value |-> estimate_monthly_from_window(request.total_in_window,
                                                           request.days)]
    /\ UNCHANGED <<transactions, enriched, insights, nextAdviceId, cache,
                   redisHandle, redisUp, client, request>>

(* C11: for all (total, days), estimate_monthly_from_window(total, days) is
   total * 30 / days when days > 0 (in cents, the quotient truncated) and is
   total unchanged when days <= 0. *)
C11_EstimateMonthly ==
    (request.op = "estimate_monthly_from_window" /\ response # NotApplied) =>
        IF request.days > 0
        THEN /\ response.value * request.days <= request.total_in_window * 30
             /\ request.total_in_window * 30 < (response.value + 1) * request.days
        ELSE response.value = request.total_in_window

(* 60.00 over 90 days gives 20.00 a month *)
C11_Witness ==
    /\ request.op = "estimate_monthly_from_window"
    /\ request.total_in_window = 6000
    /\ request.days = 90
    /\ response # NotApplied
    /\ response.value = 2000

(* Strings of at most MaxLen characters *)
MaxLen == 3

Alphabet == {"a", "A", "B", " "}

Strings == UNION {[1..k -> Alphabet] : k \in 0..MaxLen}

(* The (desc, merchant_raw, merchant_enriched) triples: the string is the
   description, the raw merchant or the enriched merchant *)
Triple(slot, str) ==
    CASE slot = 1 -> <<str, None, None>>
      [] slot = 2 -> <<<<"B">>, str, None>>
      [] OTHER -> <<<<"B">>, <<"A">>, str>>

SwapCase(c) ==
    CASE c = "a" -> "A"
      [] c = "A" -> "a"
      [] c = "b" -> "B"
      [] c = "B" -> "b"
      [] OTHER -> c

(* The strings that differ from str in the case of one letter, or by one
   more leading, trailing or repeated whitespace character; and str itself *)
Variants(str) ==
    {str, <<" ">> \o str, str \o <<" ">>}
    \cup {[str EXCEPT ![i] = SwapCase(str[i])] : i \in 1..Len(str)}
    \cup {SubSeq(str, 1, i) \o <<" ">> \o SubSeq(str, i + 1, Len(str)) :
             i \in {j \in 1..Len(str) : IsSpace(str[j])}}

NormalizeCalls ==
    UNION {{[op |-> "normalize_key", first |-> Triple(slot, str),
             second |-> Triple(slot, other)] : other \in Variants(str)} :
              slot \in 1..3, str \in Strings}

(* normalize_key applied to the first triple, to it again, to the second
   triple, and to the key of the first as the only field *)
ApplyNormalizeKey ==
    /\ request.op = "normalize_key"
    /\ response = NotApplied
    /\ \E key \in {normalize_key(request.first[1], request.first[2], request.first[3])} :
           response' = [key |-> key,
                        again |-> normalize_key(request.first[1], request.first[2],
                                                request.first[3]),
                        of_second |-> normalize_key(request.second[1], request.second[2],
                                                    request.second[3]),
                        of_key |-> normalize_key(key, None, None)]
    /\ UNCHANGED <<transactions, enriched, insights, nextAdviceId, cache,
                   redisHandle, redisUp, client, request>>

(* C12: normalize_key is deterministic and idempotent: the same triple gives
   the same key again, the key fed back as the only field gives the same
   key, and two triples whose chosen fields differ only in letter case or
   in the amount of leading, trailing or repeated whitespace give equal
   keys. *)
C12_NormalizeKeyIdempotent ==
    (request.op = "normalize_key" /\ response # NotApplied) =>
        /\ response.again = response.key
        /\ response.of_key = response.key
        /\ Chosen(request.second[1], request.second[2], request.second[3])
               \in Variants(Chosen(request.first[1], request.first[2], request.first[3]))
              => response.of_second = response.key

(* The enriched merchants " a B" and " a  B" (a repeated blank) gave the key
   "a b" *)
C12_Witness ==
    /\ request.op = "normalize_key"
    /\ request.first[3] = <<"a", " ", "B">>
    /\ request.second[3] = <<"a", " ", " ", "B">>
    /\ response # NotApplied
    /\ response.key = <<"a", " ", "b">>
    /\ response.of_second = response.key

(* get_benchmark_alt over the rows of provider_benchmarks for the region, in
   the order the query returns them.  Prices are in cents.  The brand names
   of the two hardcoded guesses are abbreviated: "netflix" is "n" and
   "vodafone" is "v". *)

MaxRows == 3

(* needle in hay, for Python strings *)
IsSubstring(needle, hay) ==
    \E i \in 0..(Len(hay) - Len(needle)) : SubSeq(hay, i + 1, i + Len(needle)) = needle

NetflixGuess == [provider |-> <<"N">>, plan |-> "Standard", price |-> 1299]
VodafoneGuess == [provider |-> <<"V">>, plan |-> "SIM-only", price |-> 1800]

(* The first row whose lower-cased provider is contained in the hint, else
   the guess for a brand named in the hint, else None *)
CurrentPlan(rows, hint) ==
    LET matching == {i \in 1..Len(rows) : IsSubstring(Lower(rows[i].provider), hint)}
    IN  IF matching # {}
        THEN rows[CHOOSE i \in matching : \A j \in matching : i <= j]
        ELSE IF IsSubstring(<<"n">>, hint) THEN NetflixGuess
        ELSE IF IsSubstring(<<"v">>, hint) THEN VodafoneGuess
        ELSE NoneValue

(* The rows the second loop may keep as cheaper *)
CheaperRows(rows, current) ==
    {i \in 1..Len(rows) : rows[i].provider # current.provider
                            /\ rows[i].price < current.price}

(* get_benchmark_alt that also takes plans of the current provider *)
get_benchmark_alt_any_provider(rows, provider_hint) ==
    LET hint == Lower(PyOr(provider_hint, <<>>))
        current == CurrentPlan(rows, hint)
        cheaper == {i \in 1..Len(rows) : rows[i].price < current.price}
    IN  IF rows = <<>> \/ current = NoneValue \/ cheaper = {} THEN NoneValue
        ELSE [current |-> current,
              alternative |-> rows[CHOOSE i \in cheaper :
                                      \A j \in cheaper : rows[i].price <= rows[j].price]]

(* The loop keeps a row only when its price is below the one kept: the
   result is the first of the cheapest rows *)
get_benchmark_alt(rows, provider_hint) ==
    LET hint == Lower(PyOr(provider_hint, <<>>))
        current == CurrentPlan(rows, hint)
        cheaper == CheaperRows(rows, current)
    IN  IF rows = <<>> \/ current = NoneValue \/ cheaper = {} THEN NoneValue
        ELSE [current |-> current,
              alternative |->
                  rows[CHOOSE i \in cheaper :
                          \A j \in cheaper : \/ rows[i].price < rows[j].price
                                              \/ (rows[i].price = rows[j].price /\ i <= j)]]

BenchmarkRows ==
    {[provider |-> <<"A">>, plan |-> "Premium", price |-> 2000],
     [provider |-> <<"A">>, plan |-> "Basic", price |-> 1000],
     [provider |-> <<"B">>, plan |-> "Standard", price |-> 1500],
     [provider |-> <<"B">>, plan |-> "Family", price |-> 2500]}

BenchmarkTables == UNION {[1..k -> BenchmarkRows] : k \in 0..MaxRows}

BenchmarkHints == {None, <<"A">>, <<"m", "y", " ", "b">>, <<"N">>, <<"x">>}

BenchmarkCalls ==
    {[op |-> "get_benchmark_alt", rows |-> rows, provider_hint |-> h] :
        rows \in BenchmarkTables, h \in BenchmarkHints}

ApplyBenchmarkAlt ==
    /\ request.op = "get_benchmark_alt"
    /\ response = NotApplied
    /\ response' = [value |-> get_benchmark_alt(request.rows, request.provider_hint)]
    /\ UNCHANGED <<transactions, enriched, insights, nextAdviceId, cache,
                   redisHandle, redisUp, client, request>>

(* The rows whose provider name is contained in the hint, case ignored *)
RowsMatching(rows, provider_hint) ==
    {i \in 1..Len(rows) :
        IsSubstring(Lower(rows[i].provider), Lower(PyOr(provider_hint, <<>>)))}

(* C16 as stated: a result has an alternative strictly cheaper than the
   matched current plan and no row of the table is cheaper than the
   alternative; the result is null when no plan of the table matches the
   hint, and when no row is strictly cheaper than the current plan. *)
C16_CheapestOfAllRows ==
    (request.op = "get_benchmark_alt" /\ response # NotApplied) =>
        /\ response.value # NoneValue =>
              /\ response.value.alternative.price < response.value.current.price
              /\ \A i \in 1..Len(request.rows) :
                     request.rows[i].price >= response.value.alternative.price
        /\ RowsMatching(request.rows, request.provider_hint) = {}
              => response.value = NoneValue
        /\ (/\ RowsMatching(request.rows, request.provider_hint) # {}
            /\ \A i \in 1..Len(request.rows) :
                   request.rows[i].price >=
                       CurrentPlan(request.rows, Lower(PyOr(request.provider_hint, <<>>))).price)
              => response.value = NoneValue

(* C16, amended: the current plan is the first row whose provider is named
   in the hint, or else the hardcoded guess for a brand named in the hint.  A
   result has as alternative a row of another provider than the current
   plan's, strictly cheaper than the current plan, and no row of another
   provider is cheaper than the alternative.  The result is null exactly
   when the table is empty, or neither a row nor a brand guess matches the
   hint, or no row of another provider is strictly cheaper than the current
   plan. *)
C16_CheapestOfOtherProviders ==
    (request.op = "get_benchmark_alt" /\ response # NotApplied) =>
        LET rows == request.rows
            hint == Lower(PyOr(request.provider_hint, <<>>))
            matching == RowsMatching(rows, request.provider_hint)
            guess == IF IsSubstring(<<"n">>, hint) THEN {NetflixGuess}
                     ELSE IF IsSubstring(<<"v">>, hint) THEN {VodafoneGuess}
                     ELSE {}
            currents == IF matching # {}
                        THEN {rows[i] : i \in {j \in matching : \A k \in matching : j <= k}}
                        ELSE guess
            others(c) == {i \in 1..Len(rows) : rows[i].provider # c.provider}
        IN  IF response.value = NoneValue
            THEN \/ rows = <<>>
                 \/ currents = {}
                 \/ \A c \in currents : \A i \in others(c) : rows[i].price >= c.price
            ELSE /\ rows # <<>>
                 /\ response.value.current \in currents
                 /\ \E i \in others(response.value.current) :
                        rows[i] = response.value.alternative
                 /\ response.value.alternative.price < response.value.current.price
                 /\ \A i \in others(response.value.current) :
                        rows[i].price >= response.value.alternative.price

(* Provider A at 20 and provider B at 15, with a cheaper plan of A in the
   table: a hint naming A gives alternative B, saving 5 *)
C16_Witness ==
    /\ request.op = "get_benchmark_alt"
    /\ request.provider_hint = <<"A">>
    /\ Len(request.rows) = 3
    /\ request.rows[3].provider = <<"A">> /\ request.rows[3].price = 1000
    /\ response # NotApplied
    /\ response.value # NoneValue
    /\ response.value.current.price = 2000
    /\ response.value.alternative.provider = <<"B">>
    /\ response.value.current.price - response.value.alternative.price = 500

(* future_value_monthly_contrib on contributions in cents, annual rates in
   basis points (700 is 0.07; -10000 is -1) and whole numbers of years *)
FvContribs == {0, 100, 1200}

FvRates == {0 - 20000, 0 - 10000, 0 - 600, 0, 300, 700}

FvYears == {0, 1, 5, 10}

FutureValueCalls ==
    {[op |-> "future_value_monthly_contrib", contrib_per_month |-> c,
      annual_rate |-> r, years |-> y] :
        c \in FvContribs, r \in FvRates, y \in FvYears}

ApplyFutureValue ==
    /\ request.op = "future_value_monthly_contrib"
    /\ response = NotApplied
    /\ response' = [value |-> future_value_monthly_contrib(request.contrib_per_month,
                                                          request.annual_rate,
                                                          request.years)]
    /\ UNCHANGED <<transactions, enriched, insights, nextAdviceId, cache,
                   redisHandle, redisUp, client, request>>

(* 1 + (1 + r) + ... + (1 + r) ** (n - 1) with six decimals, which is
   ((1 + r) ** n - 1) / r.  st.term is the next summand, st.sum the sum of
   those before it. *)
AddTerm(st, annual_rate) ==
    Strict(LAMBDA x : [term |-> CompoundOf(x.term, annual_rate),
                       sum |-> x.sum + x.term], st)

AddTerms3(st, annual_rate) ==
    AddTerm(AddTerm(AddTerm(st, annual_rate), annual_rate), annual_rate)

AddTerms12(st, annual_rate) ==
    AddTerms3(AddTerms3(AddTerms3(AddTerms3(st, annual_rate), annual_rate),
                        annual_rate), annual_rate)

RECURSIVE AnnuityFactor(_, _, _)
AnnuityFactor(annual_rate, n, st) ==
    IF n = 0 THEN st.sum
    ELSE IF n >= 12
    THEN Strict(LAMBDA x : AnnuityFactor(annual_rate, n - 12, x), AddTerms12(st, annual_rate))
    ELSE Strict(LAMBDA x : AnnuityFactor(annual_rate, n - 1, x), AddTerm(st, annual_rate))

(* c * (((1 + r) ** n - 1) / r) in cents *)
AnnuityValue(c, annual_rate, n) ==
    (c * (AnnuityFactor(annual_rate, n, [term |-> 1000000, sum |-> 0]) \div 100))
        \div 10000

(* C21: future_value_monthly_contrib(c, 0, years) = c * years * 12; for an
   annual rate above -1 and different from 0, with r the rate of one month
   and n = years * 12, the value is c * (((1 + r) ** n - 1) / r), here up to
   the rounding of the arithmetic (a thousandth of the value and one cent). *)
C21_FutureValueFormula ==
    (request.op = "future_value_monthly_contrib" /\ response # NotApplied) =>
        /\ request.annual_rate = 0 =>
               response.value = request.contrib_per_month * request.years * 12
        /\ (request.annual_rate > 0 - 10000 /\ request.annual_rate # 0) =>
               \E expected \in {AnnuityValue(request.contrib_per_month,
                                              request.annual_rate,
                                              request.years * 12)} :
                   Abs(response.value - expected) * 1000 <= expected + 1000

(* 1.00 a month at 7% for 10 years: about 173.07, more than the 120.00 paid in *)
C21_Witness ==
    /\ request.op = "future_value_monthly_contrib"
    /\ request.contrib_per_month = 100
    /\ request.annual_rate = 700
    /\ request.years = 10
    /\ response # NotApplied
    /\ response.value > 17290
    /\ response.value < 17320

InitFunctions ==
    /\ transactions = <<>>
    /\ enriched = {}
    /\ insights = {}
    /\ nextAdviceId = 1
    /\ cache = NoCache
    /\ redisHandle = "None"
    /\ redisUp = FALSE
    /\ client = "OpenAI"
    /\ request \in EstimateCalls \cup NormalizeCalls \cup BenchmarkCalls
                    \cup FutureValueCalls
    /\ response = NotApplied

NextFunctions ==
    \/ ApplyEstimateMonthly
    \/ ApplyNormalizeKey
    \/ ApplyBenchmarkAlt
    \/ ApplyFutureValue

SpecFunctions == InitFunctions /\ [][NextFunctions]_vars

(* C17: a categorisation request sends at most one request to the external
   AI service: after a call that failed the answer is a fallback value and
   no second call is made. *)
C17_AtMostOneExternalCall ==
    request.op = "categorize" => request.calls <= 1

(* A payload of _error_payload or the default of _no_key_fallback *)
IsFailurePayload(v) ==
    \/ v = _no_key_fallback
    \/ /\ Get(v, "confidence", NullNumber) = 0
       /\ Get(v, "category", "") = "null"
       /\ Get(v, "notes", "null") # "null"

(* C18: the cache only holds results of successful external
   categorisations: no cache entry is an error payload (confidence 0 with
   an error note) or the no-key default, and no request is answered with a
   failure found in the cache. *)
C18_CacheHoldsOnlySuccesses ==
    /\ \A k \in DOMAIN cache : ~IsFailurePayload(cache[k])
    /\ (request.op = "categorize" /\ request.cache_hit)
           => ~IsFailurePayload(request.result)

(* The keys SCHEMA requires *)
RequiredFields == {"merchant", "category", "is_subscription", "confidence", "notes"}

(* C19: every value categorize_with_openai returns has the required fields
   merchant, category, is_subscription, confidence and notes, with
   confidence in [0,1]; with no client configured and no cached value the
   value is the fixed default (confidence 0.5) and no external call is
   made. *)
C19_ReturnedValueHasRequiredFields ==
    (request.op = "categorize" /\ request.raised_in = "none") =>
        /\ RequiredFields \subseteq DOMAIN request.result
        /\ Get(request.result, "confidence", 0) \in 0..100
        /\ (client = "None" /\ ~request.cache_hit)
               => /\ request.result = _no_key_fallback
                  /\ request.result.confidence = 50
                  /\ request.calls = 0

(* C20: GET /advisor/{transaction_id} for an existing transaction never ends
   in a server error, also when the call to the AI service fails or no
   client is configured; an unknown transaction id is answered with 404. *)
C20_SingleAdviceNeverServerError ==
    request.op = "single_advice" =>
        IF request.transaction_id \in TxIds
        THEN response.status = 200
        ELSE response.status = 404

====
